---- MODULE Spec2Model ----
(***************************************************************************)
(* textpp: a text preprocessor (src/src/main.rs).                          *)
(*                                                                         *)
(* Strings are sequences of characters; a character is a one-character     *)
(* TLA+ string, except the two-byte character U+00E9 and the characters    *)
(* U+00C3 / U+00A9 that `byte as char` makes of its two UTF-8 bytes.       *)
(***************************************************************************)
EXTENDS Integers, Sequences, FiniteSets, TLC

VARIABLES
    argv,       \* env::args().skip(1): the command line
    argi,       \* index of the next argument main's loop reads
    defs,       \* Defs { values, defined }
    input,      \* main's `input`: <<>> is None, <<path>> is Some(path)
    files,      \* the file system: readable path -> content
    calls,      \* the chain of active process_file calls, root first
    out,        \* the output buffer shared by every call
    last_ret,   \* what the process_file call that returned last returned
    raised,     \* the errors returned by process_file calls so far
    result,     \* what main got back from the root call
    pc,         \* "args" | "run" | "done" | "expr" | "subst"
    sample      \* the input and outcome of a pure function under test

vars == <<argv, argi, defs, input, files, calls, out, last_ret, raised, result, pc, sample>>

----------------------------------------------------------------------------
\* Bounds of the model.

MaxArgs == 3
MaxLines == 4
MaxNot == 1
MaxSubst == 6
\* Lines of a root input in the specifications of the #if errors and of the
\* include cycles, and the calls of process_file that may be open at once.
MaxIfLines == 3
MaxCycleLines == 3
MaxDepth == 4

----------------------------------------------------------------------------
\* Characters.

Lower == <<"a","b","c","d","e","f","g","h","i","j","k","l","m",
           "n","o","p","q","r","s","t","u","v","w","x","y","z">>
Upper == <<"A","B","C","D","E","F","G","H","I","J","K","L","M",
           "N","O","P","Q","R","S","T","U","V","W","X","Y","Z">>
Digits == {"0","1","2","3","4","5","6","7","8","9"}

Range(s) == { s[i] : i \in DOMAIN s }

is_whitespace(c) == c \in {" ", "\t", "\n", "\r"}
is_ascii_digit(c) == c \in Digits
is_ascii_alphabetic(c) == c \in Range(Lower) \cup Range(Upper)
is_ascii_alphanumeric(c) == is_ascii_alphabetic(c) \/ is_ascii_digit(c)

char_to_ascii_uppercase(c) ==
    IF c \in Range(Lower)
      THEN Upper[CHOOSE i \in DOMAIN Lower : Lower[i] = c]
      ELSE c

to_ascii_uppercase(s) == [i \in DOMAIN s |-> char_to_ascii_uppercase(s[i])]

----------------------------------------------------------------------------
\* str operations.

starts_with(s, p) == Len(p) <= Len(s) /\ SubSeq(s, 1, Len(p)) = p

\* s[n..] with a zero-based byte offset n.
slice_from(s, n) == SubSeq(s, n + 1, Len(s))

trim_start(s) ==
    LET keep == { i \in DOMAIN s : ~is_whitespace(s[i]) }
    IN  IF keep = {} THEN <<>>
        ELSE SubSeq(s, CHOOSE i \in keep : \A j \in keep : i <= j, Len(s))

trim_end(s) ==
    LET keep == { i \in DOMAIN s : ~is_whitespace(s[i]) }
    IN  IF keep = {} THEN <<>>
        ELSE SubSeq(s, 1, CHOOSE i \in keep : \A j \in keep : j <= i)

trim(s) == trim_end(trim_start(s))

\* String::retain(|c| c != ch)
RECURSIVE retain_ne(_, _)
retain_ne(s, ch) ==
    IF s = <<>> THEN <<>>
    ELSE IF Head(s) = ch THEN retain_ne(Tail(s), ch)
    ELSE <<Head(s)>> \o retain_ne(Tail(s), ch)

\* str::split_once(ch): <<>> is None, <<k, v>> is Some((k, v)).
split_once(s, ch) ==
    LET hits == { i \in DOMAIN s : s[i] = ch }
    IN  IF hits = {} THEN <<>>
        ELSE LET i == CHOOSE i \in hits : \A j \in hits : i <= j
             IN  <<SubSeq(s, 1, i - 1), SubSeq(s, i + 1, Len(s))>>

----------------------------------------------------------------------------
\* HashMap and the definition store.

map_insert(m, k, v) == [x \in DOMAIN m \cup {k} |-> IF x = k THEN v ELSE m[x]]
map_remove(m, k) == [x \in DOMAIN m \ {k} |-> m[x]]

TRUE_STR == <<"T","R","U","E">>

Defs_new == [values |-> <<>>, defined |-> <<>>]

\* value: <<>> is None, <<v>> is Some(v).
set_defined_ForgetsFlag(d, key, value) ==
    IF value # <<>>
      THEN [values |-> map_insert(d.values, key, value[1]),
            defined |-> map_insert(d.defined, key, TRUE)]
      ELSE [values |-> map_remove(d.values, key),
            defined |-> d.defined]

set_defined(d, key, value) ==
    IF value # <<>>
      THEN [values |-> map_insert(d.values, key, value[1]),
            defined |-> map_insert(d.defined, key, TRUE)]
      ELSE [values |-> map_remove(d.values, key),
            defined |-> map_insert(d.defined, key, FALSE)]

is_defined(d, key) ==
    IF key \in DOMAIN d.defined THEN d.defined[key] ELSE FALSE

get_value(d, key) ==
    IF is_defined(d, key)
      THEN IF key \in DOMAIN d.values THEN d.values[key] ELSE TRUE_STR
      ELSE <<>>

----------------------------------------------------------------------------
\* main: the argument loop.

DashD == <<"-","D">>

\* One iteration of `for arg in env::args().skip(1)`: the store and `input` after it.
main_arg(d, inp, arg) ==
    IF starts_with(arg, DashD)
      THEN LET rest == slice_from(arg, Len(DashD))
               kv == split_once(rest, "=")
           IN  IF rest = <<>> THEN [defs |-> d, input |-> inp]
               ELSE IF kv # <<>>
                 THEN IF kv[2] = <<>>
                        THEN [defs |-> set_defined(d, kv[1], <<>>), input |-> inp]
                        ELSE [defs |-> set_defined(d, kv[1], <<kv[2]>>), input |-> inp]
                 ELSE [defs |-> set_defined(d, rest, <<TRUE_STR>>), input |-> inp]
      ELSE IF inp = <<>> THEN [defs |-> d, input |-> <<arg>>]
      ELSE [defs |-> d, input |-> inp]

\* The whole loop over a command line.
RECURSIVE main_args(_, _, _)
main_args(d, inp, as) ==
    IF as = <<>> THEN [defs |-> d, input |-> inp]
    ELSE LET r == main_arg(d, inp, Head(as))
         IN  main_args(r.defs, r.input, Tail(as))

----------------------------------------------------------------------------
\* Bytes.  input.as_bytes() is the UTF-8 encoding: an ASCII character is one
\* byte (written as the character itself), U+0080..U+07FF are two bytes.

utf8(c) ==
    CASE c = "U+00E9" -> <<"0xC3", "0xA9">>
      [] c = "U+00C3" -> <<"0xC3", "0x83">>
      [] c = "U+00A9" -> <<"0xC2", "0xA9">>
      [] OTHER -> <<c>>

RECURSIVE as_bytes(_)
as_bytes(s) == IF s = <<>> THEN <<>> ELSE utf8(Head(s)) \o as_bytes(Tail(s))

\* `b as char` for b: u8 is the character U+0000..U+00FF with that number.
u8_as_char(b) ==
    CASE b = "0xC3" -> "U+00C3"
      [] b = "0xA9" -> "U+00A9"
      [] b = "0xC2" -> "U+00C2"
      [] b = "0x83" -> "U+0083"
      [] OTHER -> b

\* The str a byte range of a str holds (the range lies on character boundaries).
RECURSIVE from_utf8(_)
from_utf8(b) ==
    IF b = <<>> THEN <<>>
    ELSE IF Len(b) >= 2 /\ SubSeq(b, 1, 2) = <<"0xC3", "0xA9">>
      THEN <<"U+00E9">> \o from_utf8(SubSeq(b, 3, Len(b)))
    ELSE IF Len(b) >= 2 /\ SubSeq(b, 1, 2) = <<"0xC3", "0x83">>
      THEN <<"U+00C3">> \o from_utf8(SubSeq(b, 3, Len(b)))
    ELSE IF Len(b) >= 2 /\ SubSeq(b, 1, 2) = <<"0xC2", "0xA9">>
      THEN <<"U+00A9">> \o from_utf8(SubSeq(b, 3, Len(b)))
    ELSE <<Head(b)>> \o from_utf8(Tail(b))

\* bytes[i] and &input[a..b], with zero-based offsets.
at(b, i) == b[i + 1]
byte_slice(b, from, to) == from_utf8(SubSeq(b, from + 1, to))

----------------------------------------------------------------------------
\* Variable substitution.

is_ident(s) ==
    /\ s # <<>>
    /\ is_ascii_alphabetic(s[1]) \/ s[1] = "_"
    /\ \A i \in 2..Len(s) : is_ascii_alphanumeric(s[i]) \/ s[i] = "_"

\* <<>> is None, <<j>> is Some(j).
RECURSIVE find_double_dollar_end(_, _)
find_double_dollar_end(bytes, start) ==
    IF start + 1 < Len(bytes)
      THEN IF at(bytes, start) = "$" /\ at(bytes, start + 1) = "$"
             THEN <<start>>
             ELSE find_double_dollar_end(bytes, start + 1)
      ELSE <<>>

RECURSIVE find_double_hash_end(_, _)
find_double_hash_end(bytes, start) ==
    IF start + 1 < Len(bytes)
      THEN IF at(bytes, start) = "#" /\ at(bytes, start + 1) = "#"
             THEN <<start>>
             ELSE find_double_hash_end(bytes, start + 1)
      ELSE <<>>

\* The loop of replace_dollar_vars from offset i with `o` built so far.
RECURSIVE dollar_loop(_, _, _, _)
dollar_loop(bytes, i, o, d) ==
    IF i + 1 < Len(bytes)
      THEN LET end == IF at(bytes, i) = "$" /\ at(bytes, i + 1) = "$"
                        THEN find_double_dollar_end(bytes, i + 2)
                        ELSE <<>>
           IN  IF end # <<>>
                 THEN LET name == byte_slice(bytes, i + 2, end[1])
                      IN  dollar_loop(bytes, end[1] + 2,
                                      IF is_ident(name) THEN o \o get_value(d, name) ELSE o,
                                      d)
                 ELSE dollar_loop(bytes, i + 1, Append(o, u8_as_char(at(bytes, i))), d)
      ELSE IF i < Len(bytes) THEN Append(o, u8_as_char(at(bytes, i)))
      ELSE o

replace_dollar_vars(s, d) == dollar_loop(as_bytes(s), 0, <<>>, d)

RECURSIVE hash_loop(_, _, _, _)
hash_loop(bytes, i, o, d) ==
    IF i + 1 < Len(bytes)
      THEN LET end == IF at(bytes, i) = "#" /\ at(bytes, i + 1) = "#"
                        THEN find_double_hash_end(bytes, i + 2)
                        ELSE <<>>
           IN  IF end # <<>>
                 THEN LET name == byte_slice(bytes, i + 2, end[1])
                      IN  hash_loop(bytes, end[1] + 2,
                                    IF is_ident(name) /\ is_defined(d, name)
                                      THEN o \o get_value(d, name) ELSE o,
                                    d)
                 ELSE hash_loop(bytes, i + 1, Append(o, u8_as_char(at(bytes, i))), d)
      ELSE IF i < Len(bytes) THEN Append(o, u8_as_char(at(bytes, i)))
      ELSE o

replace_hash_vars(s, d) == hash_loop(as_bytes(s), 0, <<>>, d)

\* <<>> is None, <<path>> is Some(path).
parse_include_path(rest, d) ==
    LET after == trim(slice_from(rest, 7))
        cleaned == retain_ne(after, "\"")
        replaced == replace_hash_vars(cleaned, d)
    IN  IF after = <<>> THEN <<>>
        ELSE IF replaced = <<>> THEN <<>>
        ELSE <<replaced>>

----------------------------------------------------------------------------
\* Expressions: truthiness, the tokenizer and the parser.

truthy_CaseSensitive(value) ==
    IF value = <<>> THEN FALSE
    ELSE ~(value \in {<<"0">>, <<"F">>, <<"F","A","L","S","E">>, <<"N","O">>})

truthy(value) ==
    IF value = <<>> THEN FALSE
    ELSE LET upper == to_ascii_uppercase(value)
         IN  ~(upper \in {<<"0">>, <<"F">>, <<"F","A","L","S","E">>, <<"N","O">>})

\* Result<_, String>: the Err messages, with the formatted part in `arg`.
Err(msg, arg) == [ok |-> FALSE, msg |-> msg, arg |-> arg]

Tok(t, s) == [t |-> t, s |-> s]

ident_continue(c) == is_ascii_alphanumeric(c) \/ c = "_"

\* The end (exclusive, zero-based) of the run of digits (identifier characters) from i.
RECURSIVE digits_end(_, _)
digits_end(chars, i) ==
    IF i < Len(chars) /\ is_ascii_digit(at(chars, i)) THEN digits_end(chars, i + 1) ELSE i

RECURSIVE ident_end(_, _)
ident_end(chars, i) ==
    IF i < Len(chars) /\ ident_continue(at(chars, i)) THEN ident_end(chars, i + 1) ELSE i

\* The body of a string literal from offset i: where the scan stops, and the text.
RECURSIVE str_body(_, _, _)
str_body(chars, i, s) ==
    IF i < Len(chars)
      THEN LET ch == at(chars, i)
           IN  IF ch = "\"" THEN [i |-> i, s |-> s]
               ELSE IF ch = "\\" /\ i + 1 < Len(chars)
                 THEN str_body(chars, i + 2, Append(s, at(chars, i + 1)))
               ELSE str_body(chars, i + 1, Append(s, ch))
      ELSE [i |-> i, s |-> s]

RECURSIVE tokenize_loop(_, _, _)
tokenize_loop(chars, i, tokens) ==
    IF i < Len(chars)
      THEN LET c == at(chars, i)
               doubled == i + 1 < Len(chars) /\ at(chars, i + 1) = c
           IN  IF is_whitespace(c) THEN tokenize_loop(chars, i + 1, tokens)
               ELSE IF c = "&"
                 THEN IF doubled
                        THEN tokenize_loop(chars, i + 2, Append(tokens, Tok("And", <<>>)))
                        ELSE Err("invalid expression: single '&'", <<>>)
               ELSE IF c = "|"
                 THEN IF doubled
                        THEN tokenize_loop(chars, i + 2, Append(tokens, Tok("Or", <<>>)))
                        ELSE Err("invalid expression: single '|'", <<>>)
               ELSE IF c = "="
                 THEN IF doubled
                        THEN tokenize_loop(chars, i + 2, Append(tokens, Tok("Eq", <<>>)))
                        ELSE Err("invalid expression: single '='", <<>>)
               ELSE IF c = "!"
                 THEN IF i + 1 < Len(chars) /\ at(chars, i + 1) = "="
                        THEN tokenize_loop(chars, i + 2, Append(tokens, Tok("Ne", <<>>)))
                        ELSE tokenize_loop(chars, i + 1, Append(tokens, Tok("Not", <<>>)))
               ELSE IF c = "("
                 THEN tokenize_loop(chars, i + 1, Append(tokens, Tok("LParen", <<>>)))
               ELSE IF c = ")"
                 THEN tokenize_loop(chars, i + 1, Append(tokens, Tok("RParen", <<>>)))
               ELSE IF c = "\""
                 THEN LET b == str_body(chars, i + 1, <<>>)
                      IN  IF b.i >= Len(chars) \/ at(chars, b.i) # "\""
                            THEN Err("invalid expression: unterminated string", <<>>)
                            ELSE tokenize_loop(chars, b.i + 1, Append(tokens, Tok("Str", b.s)))
               ELSE IF is_ascii_digit(c)
                 THEN LET e == digits_end(chars, i + 1)
                      IN  tokenize_loop(chars, e, Append(tokens, Tok("Num", SubSeq(chars, i + 1, e))))
               ELSE IF is_ascii_alphabetic(c) \/ c = "_"
                 THEN LET e == ident_end(chars, i + 1)
                      IN  tokenize_loop(chars, e, Append(tokens, Tok("Ident", SubSeq(chars, i + 1, e))))
               ELSE Err("invalid expression: unexpected char", c)
      ELSE [ok |-> TRUE, tokens |-> tokens]

tokenize(expr) == tokenize_loop(expr, 0, <<>>)

\* Parser: every method takes the position and returns the value with the new position.
Got(val, pos) == [ok |-> TRUE, val |-> val, pos |-> pos]

\* match_token for the token kind t: whether the token at pos is one (pos then moves on).
match_token(tokens, pos, t) == pos < Len(tokens) /\ at(tokens, pos).t = t

parse_value(tokens, pos, d) ==
    IF pos < Len(tokens)
      THEN LET token == at(tokens, pos)
           IN  IF token.t = "Ident" THEN Got(get_value(d, token.s), pos + 1)
               ELSE IF token.t = "Str" THEN Got(token.s, pos + 1)
               ELSE IF token.t = "Num" THEN Got(token.s, pos + 1)
               ELSE Err("invalid expression: expected value", <<>>)
      ELSE Err("invalid expression: unexpected end", <<>>)

\* A result is handed on as an argument, so that each method is called once where
\* the source calls it once.
RECURSIVE parse_or(_, _, _)
RECURSIVE parse_or_rest(_, _, _)
RECURSIVE parse_or_join(_, _, _, _)
RECURSIVE parse_and(_, _, _)
RECURSIVE parse_and_rest(_, _, _)
RECURSIVE parse_and_join(_, _, _, _)
RECURSIVE parse_not(_, _, _)
RECURSIVE parse_cmp(_, _, _)

\* `left` is the Result of the operand parsed last, holding the value so far.
parse_or(tokens, pos, d) == parse_or_rest(tokens, d, parse_and(tokens, pos, d))

parse_or_rest(tokens, d, left) ==
    IF left.ok /\ match_token(tokens, left.pos, "Or")
      THEN parse_or_join(tokens, d, left, parse_and(tokens, left.pos + 1, d))
      ELSE left

parse_or_join(tokens, d, left, right) ==
    IF right.ok
      THEN parse_or_rest(tokens, d, Got(left.val \/ right.val, right.pos))
      ELSE right

parse_and(tokens, pos, d) == parse_and_rest(tokens, d, parse_not(tokens, pos, d))

parse_and_rest(tokens, d, left) ==
    IF left.ok /\ match_token(tokens, left.pos, "And")
      THEN parse_and_join(tokens, d, left, parse_not(tokens, left.pos + 1, d))
      ELSE left

parse_and_join(tokens, d, left, right) ==
    IF right.ok
      THEN parse_and_rest(tokens, d, Got(left.val /\ right.val, right.pos))
      ELSE right

\* Ok(!v) of parse_not.
negated(v) == IF v.ok THEN Got(~v.val, v.pos) ELSE v

parse_not(tokens, pos, d) ==
    IF match_token(tokens, pos, "Not")
      THEN negated(parse_not(tokens, pos + 1, d))
      ELSE parse_cmp(tokens, pos, d)

\* parse_cmp after the parenthesised parse_or returned v.
close_paren_Lenient(tokens, v) ==
    IF ~v.ok THEN v
    ELSE IF ~match_token(tokens, v.pos, "RParen")
      THEN Got(v.val, v.pos)
    ELSE Got(v.val, v.pos + 1)

close_paren(tokens, v) ==
    IF ~v.ok THEN v
    ELSE IF ~match_token(tokens, v.pos, "RParen")
      THEN Err("invalid expression: missing ')'", <<>>)
    ELSE Got(v.val, v.pos + 1)

\* left == right and left != right, once the right value is parsed.
cmp_eq(left, right) == IF right.ok THEN Got(left.val = right.val, right.pos) ELSE right
cmp_ne(left, right) == IF right.ok THEN Got(left.val # right.val, right.pos) ELSE right

\* parse_cmp after its first parse_value returned left.
cmp_rest(tokens, d, left) ==
    IF ~left.ok THEN left
    ELSE IF match_token(tokens, left.pos, "Eq")
      THEN cmp_eq(left, parse_value(tokens, left.pos + 1, d))
    ELSE IF match_token(tokens, left.pos, "Ne")
      THEN cmp_ne(left, parse_value(tokens, left.pos + 1, d))
    ELSE Got(truthy(left.val), left.pos)

parse_cmp(tokens, pos, d) ==
    IF match_token(tokens, pos, "LParen")
      THEN close_paren(tokens, parse_or(tokens, pos + 1, d))
      ELSE cmp_rest(tokens, d, parse_value(tokens, pos, d))

\* eval_expr after parse_or returned value: Ok(value) is [ok |-> TRUE, val |-> value].
eval_end(tokens, value) ==
    IF ~value.ok THEN value
    ELSE IF value.pos # Len(tokens)
      THEN Err("invalid expression: unexpected token at position", value.pos)
    ELSE [ok |-> TRUE, val |-> value.val]

\* eval_expr after tokenize returned tk.
eval_tokens(tk, d) ==
    IF ~tk.ok THEN tk ELSE eval_end(tk.tokens, parse_or(tk.tokens, 0, d))

eval_expr(expr, d) == eval_tokens(tokenize(expr), d)

----------------------------------------------------------------------------
\* Paths and file contents.

\* Path::parent of a relative path, with unwrap_or(".") applied.
path_parent(path) ==
    LET slashes == { i \in DOMAIN path : path[i] = "/" }
    IN  IF path = <<>> THEN <<".">>
        ELSE IF slashes = {} THEN <<>>
        ELSE SubSeq(path, 1, (CHOOSE i \in slashes : \A j \in slashes : j <= i) - 1)

\* Path::join.
path_join(base, p) ==
    IF base = <<>> \/ (p # <<>> /\ p[1] = "/") THEN p
    ELSE base \o <<"/">> \o p

\* str::lines: split at "\n", a "\r" before it dropped; the last line needs no "\n".
RECURSIVE str_lines(_)
str_lines(s) ==
    LET nls == { i \in DOMAIN s : s[i] = "\n" }
    IN  IF s = <<>> THEN <<>>
        ELSE IF nls = {} THEN <<s>>
        ELSE LET n == CHOOSE i \in nls : \A j \in nls : i <= j
                 line == SubSeq(s, 1, n - 1)
                 bare == IF line # <<>> /\ line[Len(line)] = "\r"
                           THEN SubSeq(line, 1, Len(line) - 1) ELSE line
             IN  <<bare>> \o str_lines(SubSeq(s, n + 1, Len(s)))

----------------------------------------------------------------------------
\* process_file.

kw_include == <<"i","n","c","l","u","d","e">>
kw_ifdef == <<"i","f","d","e","f">>
kw_ifndef == <<"i","f","n","d","e","f">>
kw_if == <<"i","f">>
kw_else == <<"e","l","s","e">>
kw_endif == <<"e","n","d","i","f">>

\* raw_line.strip_prefix('#') then trim_start: <<>> is None, <<trimmed>> is Some.
directive_text(raw_line) ==
    IF raw_line # <<>> /\ raw_line[1] = "#"
      THEN <<trim_start(Tail(raw_line))>>
      ELSE <<>>

\* Which branch of the loop body takes the line.
line_kind(raw_line) ==
    LET t == directive_text(raw_line)
    IN  IF t = <<>> THEN "content"
        ELSE IF starts_with(t[1], kw_include) THEN "include"
        ELSE IF starts_with(t[1], kw_ifdef) THEN "ifdef"
        ELSE IF starts_with(t[1], kw_ifndef) THEN "ifndef"
        ELSE IF starts_with(t[1], kw_if) THEN "if"
        ELSE IF starts_with(t[1], kw_else) THEN "else"
        ELSE IF starts_with(t[1], kw_endif) THEN "endif"
        ELSE "content"

CondFrame(parent_active, active, else_seen) ==
    [parent_active |-> parent_active, active |-> active, else_seen |-> else_seen]

\* A process_file call that has not yet read its file.
Call(path) ==
    [path |-> path, entered |-> FALSE, lines |-> <<>>, idx |-> 1,
     stack |-> <<>>, current_active |-> TRUE]

Ok == [ok |-> TRUE]
ErrElse == Err("invalid directive structure: #else without matching #if/#ifdef/#ifndef", <<>>)
ErrEndif == Err("invalid directive structure: #endif without matching #if/#ifdef/#ifndef", <<>>)
ErrMissingEndif == Err("invalid directive structure: missing #endif", <<>>)

Top == calls[Len(calls)]
Running == pc = "run" /\ calls # <<>>
AtLine == Running /\ Top.entered /\ Top.idx <= Len(Top.lines)
Line == Top.lines[Top.idx]
Trimmed == directive_text(Line)[1]

\* The top call goes on as f.
Continue(f) ==
    /\ calls' = [calls EXCEPT ![Len(calls)] = f]
    /\ UNCHANGED <<last_ret, raised, result, pc>>

Next_line(f) == [f EXCEPT !.idx = @ + 1]

\* The top call returns r: to its caller, which drops the value (`let _ =`), or to main.
Return(r) ==
    /\ calls' = SubSeq(calls, 1, Len(calls) - 1)
    /\ last_ret' = [path |-> Top.path, depth |-> Len(calls), ret |-> r]
    /\ raised' = IF r.ok THEN raised ELSE Append(raised, r)
    /\ IF Len(calls) = 1
         THEN result' = r /\ pc' = "done"
         ELSE UNCHANGED <<result, pc>>

\* The push of #ifdef, #ifndef and #if.
Push(f, cond) ==
    [f EXCEPT !.stack = Append(@, CondFrame(f.current_active, cond, FALSE)),
              !.current_active = f.current_active /\ cond]

\* #else with an open frame.
on_else_TogglesAgain(f) ==
    LET n == Len(f.stack)
        top == [f.stack[n] EXCEPT !.else_seen = TRUE, !.active = ~f.stack[n].active]
    IN  [f EXCEPT !.stack[n] = top,
                  !.current_active = top.parent_active /\ top.active]

on_else(f) ==
    LET n == Len(f.stack)
        top == [f.stack[n] EXCEPT !.else_seen = TRUE, !.active = ~f.stack[n].active]
    IN  IF ~f.stack[n].else_seen
          THEN [f EXCEPT !.stack[n] = top,
                         !.current_active = top.parent_active /\ top.active]
          ELSE f

\* #endif with an open frame.
on_endif_AlwaysOn(f) ==
    [f EXCEPT !.stack = SubSeq(@, 1, Len(@) - 1),
              !.current_active = TRUE]

on_endif(f) ==
    LET top == f.stack[Len(f.stack)]
    IN  [f EXCEPT !.stack = SubSeq(@, 1, Len(@) - 1),
                  !.current_active = top.parent_active]

\* What process_file returns when read_to_string fails.
unreadable_IsError ==
    Err("cannot read file", <<>>)

unreadable ==
    Ok

\* What process_file returns after its last line.
eof_result_NoCheck(stack) ==
    Ok

eof_result(stack) ==
    IF stack # <<>> THEN ErrMissingEndif ELSE Ok

\* fs::read_to_string and the locals of process_file.
Enter ==
    /\ Running /\ ~Top.entered
    /\ IF Top.path \in DOMAIN files
         THEN Continue([Top EXCEPT !.entered = TRUE,
                                   !.lines = str_lines(files[Top.path])])
         ELSE Return(unreadable)
    /\ UNCHANGED <<argv, argi, defs, input, files, out, sample>>

\* Whether the call of process_file on `joined` is made, given the calls that
\* are open: nothing stands between `joined` and the call.
descends_UnlessOpen(chain, joined) ==
    \A i \in DOMAIN chain : chain[i].path # joined

descends(chain, joined) ==
    TRUE

\* The call stack of the model holds at most MaxDepth calls: the step that would
\* start one more is not taken.
Include ==
    /\ AtLine /\ line_kind(Line) = "include"
    /\ LET include_path == parse_include_path(Trimmed, defs)
       IN  IF /\ Top.current_active /\ include_path # <<>>
              /\ descends(calls, path_join(path_parent(Top.path), include_path[1]))
             THEN /\ Len(calls) < MaxDepth
                  /\ calls' = Append([calls EXCEPT ![Len(calls)] = Next_line(Top)],
                                     Call(path_join(path_parent(Top.path), include_path[1])))
                  /\ UNCHANGED <<last_ret, raised, result, pc>>
             ELSE Continue(Next_line(Top))
    /\ UNCHANGED <<argv, argi, defs, input, files, out, sample>>

IfDef ==
    /\ AtLine /\ line_kind(Line) = "ifdef"
    /\ LET name == trim(slice_from(Trimmed, Len(kw_ifdef)))
       IN  Continue(Next_line(Push(Top, is_defined(defs, name))))
    /\ UNCHANGED <<argv, argi, defs, input, files, out, sample>>

IfNDef ==
    /\ AtLine /\ line_kind(Line) = "ifndef"
    /\ LET name == trim(slice_from(Trimmed, Len(kw_ifndef)))
       IN  Continue(Next_line(Push(Top, ~is_defined(defs, name))))
    /\ UNCHANGED <<argv, argi, defs, input, files, out, sample>>

If ==
    /\ AtLine /\ line_kind(Line) = "if"
    /\ LET cond == eval_expr(trim(slice_from(Trimmed, Len(kw_if))), defs)
       IN  IF cond.ok
             THEN Continue(Next_line(Push(Top, cond.val)))
             ELSE Return(cond)
    /\ UNCHANGED <<argv, argi, defs, input, files, out, sample>>

Else ==
    /\ AtLine /\ line_kind(Line) = "else"
    /\ IF Top.stack = <<>>
         THEN Return(ErrElse)
         ELSE Continue(Next_line(on_else(Top)))
    /\ UNCHANGED <<argv, argi, defs, input, files, out, sample>>

EndIf ==
    /\ AtLine /\ line_kind(Line) = "endif"
    /\ IF Top.stack = <<>>
         THEN Return(ErrEndif)
         ELSE Continue(Next_line(on_endif(Top)))
    /\ UNCHANGED <<argv, argi, defs, input, files, out, sample>>

Content ==
    /\ AtLine /\ line_kind(Line) = "content"
    /\ out' = IF Top.current_active
                THEN out \o replace_dollar_vars(Line, defs) \o <<"\n">>
                ELSE out
    /\ Continue(Next_line(Top))
    /\ UNCHANGED <<argv, argi, defs, input, files, sample>>

EndOfFile ==
    /\ Running /\ Top.entered /\ Top.idx > Len(Top.lines)
    /\ Return(eof_result(Top.stack))
    /\ UNCHANGED <<argv, argi, defs, input, files, out, sample>>

----------------------------------------------------------------------------
\* main around the argument loop.

ParseArg ==
    /\ pc = "args" /\ argi <= Len(argv)
    /\ LET r == main_arg(defs, input, argv[argi])
       IN  defs' = r.defs /\ input' = r.input
    /\ argi' = argi + 1
    /\ UNCHANGED <<argv, files, calls, out, last_ret, raised, result, pc, sample>>

Usage ==
    /\ pc = "args" /\ argi > Len(argv) /\ input = <<>>
    /\ result' = Err("usage: textpp [-DKEY[=VALUE]] <input-file>", 2)
    /\ pc' = "done"
    /\ UNCHANGED <<argv, argi, defs, input, files, calls, out, last_ret, raised, sample>>

\* main calls process_file(&input_path, &defs, &mut out).
Start ==
    /\ pc = "args" /\ argi > Len(argv) /\ input # <<>>
    /\ calls' = <<Call(input[1])>>
    /\ out' = <<>>
    /\ pc' = "run"
    /\ UNCHANGED <<argv, argi, defs, input, files, last_ret, raised, result, sample>>

----------------------------------------------------------------------------
\* The inputs of the model.

NoRet == [path |-> <<>>, depth |-> 0, ret |-> Ok]

\* The files beside the root input: ok (a line inside #ifdef A), bad (a stray
\* #endif) and nest, which includes ok by way of ##P## and then bad.
IncFiles ==
    ( <<"o","k">> :>
        <<"#","i","f","d","e","f"," ","A","\n",
          "v","$","$","A","$","$","\n",
          "#","e","n","d","i","f","\n">> ) @@
    ( <<"b","a","d">> :> <<"b","\n","#","e","n","d","i","f","\n","c","\n">> ) @@
    ( <<"n","e","s","t">> :>
        <<"#","i","n","c","l","u","d","e"," ","\"","#","#","P","#","#","\"","\n",
          "#","i","n","c","l","u","d","e"," ","b","a","d","\n",
          "n","\n">> )

RootPath == <<"i","n">>

\* -DA=1 -DU -DU= -DP=ok in
DefaultArgs ==
    << <<"-","D","A","=","1">>, <<"-","D","U">>, <<"-","D","U","=">>,
       <<"-","D","P","=","o","k">>, RootPath >>

\* The lines a root input is made of.
LineCatalog ==
    { <<"#","i","f","n","d","e","f"," ","U">>,
      <<"#","i","f"," ","!","A">>,
      <<"#","i","f"," ","(">>,
      <<"#","e","l","s","e">>,
      <<"#"," ","e","n","d","i","f">>,
      <<" ","#","i","n","c","l","u","d","e"," ","o","k">>,
      <<"#","n","o","t","e"," ","$","$","A","$","$">>,
      <<"#","i","n","c","l","u","d","e"," ","n","e","s","t">>,
      <<"#","i","n","c","l","u","d","e"," ","n","o">>,
      <<"U+00E9">> }

\* The text of a file with these lines, each ended by "\n".
RECURSIVE text_of(_)
text_of(ls) == IF ls = <<>> THEN <<>> ELSE Head(ls) \o <<"\n">> \o text_of(Tail(ls))

RootTexts == { text_of(ls) : ls \in UNION { [1..n -> LineCatalog] : n \in 0..MaxLines } }

\* The state when main's argument loop has ended, for every root input (or none).
Init ==
    /\ argv = DefaultArgs
    /\ argi = Len(argv) + 1
    /\ defs = main_args(Defs_new, <<>>, argv).defs
    /\ input = main_args(Defs_new, <<>>, argv).input
    /\ \/ \E text \in RootTexts : files = (RootPath :> text) @@ IncFiles
       \/ files = IncFiles
    /\ calls = <<>>
    /\ out = <<>>
    /\ last_ret = NoRet
    /\ raised = <<>>
    /\ result = Ok
    /\ pc = "args"
    /\ sample = <<>>

Next ==
    \/ Start
    \/ Enter
    \/ Include
    \/ IfDef
    \/ IfNDef
    \/ If
    \/ Else
    \/ EndIf
    \/ Content
    \/ EndOfFile

Spec == Init /\ [][Next]_vars

\* The command lines of the argument loop's specification.
ArgCatalog ==
    { <<"-","D","A">>, <<"-","D","A","=","1">>, <<"-","D","A","=">>,
      <<"-","D","B","=","=">>, <<"-","D","B","=">>, <<"-","D","A","B","=","0">>,
      <<"-","D">>, RootPath }

InitArgs ==
    /\ argv \in UNION { [1..n -> ArgCatalog] : n \in 0..MaxArgs }
    /\ argi = 1
    /\ defs = Defs_new
    /\ input = <<>>
    /\ files = IncFiles
    /\ calls = <<>>
    /\ out = <<>>
    /\ last_ret = NoRet
    /\ raised = <<>>
    /\ result = Ok
    /\ pc = "args"
    /\ sample = <<>>

NextArgs ==
    \/ ParseArg
    \/ Usage
    \/ Start

SpecArgs == InitArgs /\ [][NextArgs]_vars

----------------------------------------------------------------------------
\* eval_expr on the well-formed expressions of the grammar.

\* or / and / not / cmp / value, as trees: k is the rule, a and b the operands.
Node(k, a, b) == [k |-> k, a |-> a, b |-> b]
Leaf == [k |-> "none"]

Vals ==
    { Node("val", Tok("Ident", <<"A">>), Leaf),
      Node("val", Tok("Ident", <<"B">>), Leaf),
      Node("val", Tok("Ident", <<"N">>), Leaf),
      Node("val", Tok("Str", <<>>), Leaf),
      Node("val", Tok("Str", <<"f","\"">>), Leaf),
      Node("val", Tok("Num", <<"1">>), Leaf),
      Node("val", Tok("Num", <<"0">>), Leaf) }

\* cmp := value ( ('==' | '!=') value )?
Cmps == Vals \cup { Node(k, l, r) : k \in {"eq", "ne"}, l \in Vals, r \in Vals }

\* The operands of the compound expressions: a true and a false one of either shape.
Operands ==
    { Node("val", Tok("Ident", <<"A">>), Leaf),
      Node("val", Tok("Ident", <<"B">>), Leaf),
      Node("eq", Node("val", Tok("Ident", <<"A">>), Leaf), Node("val", Tok("Num", <<"1">>), Leaf)),
      Node("ne", Node("val", Tok("Ident", <<"A">>), Leaf), Node("val", Tok("Str", <<"1">>), Leaf)) }

\* not := '!' not | cmp, with up to n '!'.
RECURSIVE Nots(_, _)
Nots(S, n) == IF n = 0 THEN S ELSE S \cup { Node("not", e, Leaf) : e \in Nots(S, n - 1) }

Ands(S) == S \cup { Node("and", l, r) : l \in S, r \in S }
Ors(S) == S \cup { Node("or", l, r) : l \in S, r \in S }
Parens(S) == { Node("paren", e, Leaf) : e \in S }

\* A parenthesised or / and of two operands, bare or negated.
Grouped == Nots(Parens({ Node(k, l, r) : k \in {"and", "or"}, l \in Operands, r \in Operands }), 1)

WellFormed ==
    Nots(Cmps, MaxNot)
      \cup Ors(Ands(Nots(Operands, MaxNot)))
      \cup Grouped
      \cup { Node(k, g, x) : k \in {"and", "or"}, g \in Grouped, x \in Operands }
      \cup { Node(k, x, g) : k \in {"and", "or"}, g \in Grouped, x \in Operands }

\* A string literal's text between its quotes: `\` before each `"` and `\`.
RECURSIVE escaped(_)
escaped(s) ==
    IF s = <<>> THEN <<>>
    ELSE IF Head(s) \in {"\"", "\\"} THEN <<"\\", Head(s)>> \o escaped(Tail(s))
    ELSE <<Head(s)>> \o escaped(Tail(s))

\* The text of an expression.
RECURSIVE text_of_expr(_)
text_of_expr(e) ==
    CASE e.k = "val" ->
           IF e.a.t = "Str" THEN <<"\"">> \o escaped(e.a.s) \o <<"\"">> ELSE e.a.s
      [] e.k = "eq" -> text_of_expr(e.a) \o <<" ","=","="," ">> \o text_of_expr(e.b)
      [] e.k = "ne" -> text_of_expr(e.a) \o <<"!","=">> \o text_of_expr(e.b)
      [] e.k = "not" -> <<"!">> \o text_of_expr(e.a)
      [] e.k = "and" -> text_of_expr(e.a) \o <<" ","&","&"," ">> \o text_of_expr(e.b)
      [] e.k = "or" -> text_of_expr(e.a) \o <<"|","|">> \o text_of_expr(e.b)
      [] e.k = "paren" -> <<"("," ">> \o text_of_expr(e.a) \o <<")">>

\* -DA=1 -DN=no; B is never defined.
ExprArgs == << <<"-","D","A","=","1">>, <<"-","D","N","=","n","o">> >>

InitExpr ==
    /\ argv = ExprArgs
    /\ argi = Len(argv) + 1
    /\ defs = main_args(Defs_new, <<>>, argv).defs
    /\ input = <<>>
    /\ files = IncFiles
    /\ calls = <<>>
    /\ out = <<>>
    /\ last_ret = NoRet
    /\ raised = <<>>
    /\ result = Ok
    /\ pc = "expr"
    /\ \E e \in WellFormed : sample = [expr |-> e, done |-> FALSE, ret |-> Ok]

Eval ==
    /\ pc = "expr" /\ ~sample.done
    /\ sample' = [sample EXCEPT !.done = TRUE,
                                !.ret = eval_expr(text_of_expr(sample.expr), defs)]
    /\ UNCHANGED <<argv, argi, defs, input, files, calls, out, last_ret, raised, result, pc>>

SpecExpr == InitExpr /\ [][Eval]_vars

----------------------------------------------------------------------------
\* replace_dollar_vars on every short line over a small alphabet.

SubstAlphabet == {"$", "A", "9", "U+00E9"}

InitSubst ==
    /\ argv = ExprArgs
    /\ argi = Len(argv) + 1
    /\ defs = main_args(Defs_new, <<>>, argv).defs
    /\ input = <<>>
    /\ files = IncFiles
    /\ calls = <<>>
    /\ out = <<>>
    /\ last_ret = NoRet
    /\ raised = <<>>
    /\ result = Ok
    /\ pc = "subst"
    /\ \E n \in 0..MaxSubst : \E line \in [1..n -> SubstAlphabet] :
           sample = [line |-> line, done |-> FALSE, ret |-> <<>>]

Subst ==
    /\ pc = "subst" /\ ~sample.done
    /\ sample' = [sample EXCEPT !.done = TRUE,
                                !.ret = replace_dollar_vars(sample.line, defs)]
    /\ UNCHANGED <<argv, argi, defs, input, files, calls, out, last_ret, raised, result, pc>>

SpecSubst == InitSubst /\ [][Subst]_vars

----------------------------------------------------------------------------
\* Properties of the conditional stack.

LastOf(s) == s[Len(s)]

\* The flag of one call agrees with its innermost frame and with all its frames.
FlagAgrees(f) ==
    /\ f.current_active =
         (IF f.stack = <<>> THEN TRUE
          ELSE LastOf(f.stack).parent_active /\ LastOf(f.stack).active)
    /\ f.current_active = (\A k \in DOMAIN f.stack : f.stack[k].active)

\* C1: in every process_file call, after every line, current_active is
\* parent_active && active of the innermost open frame (true with no frame open),
\* which is the conjunction of the conditions of all open frames; and the output
\* grows only by a line of the innermost call whose enclosing scopes, in that
\* file and in every including file, are all true.
C1_EmittingFlag ==
    /\ [](\A i \in DOMAIN calls : FlagAgrees(calls[i]))
    /\ [][out' # out =>
            /\ AtLine /\ line_kind(Line) = "content"
            /\ \A i \in DOMAIN calls : \A k \in DOMAIN calls[i].stack :
                   calls[i].stack[k].active]_vars

\* A content line two scopes deep, the inner one past its #else, has been emitted.
C1_Witness ==
    /\ Running /\ Top.entered /\ Top.idx > 1
    /\ line_kind(Top.lines[Top.idx - 1]) = "content"
    /\ Len(Top.stack) = 2 /\ LastOf(Top.stack).else_seen
    /\ Top.current_active /\ out # <<>>

\* C2: when the run is over, an error that any process_file call returned, the
\* first one, is what the root call returned to main.
C2_ErrorsAbortRun ==
    (pc = "done" /\ raised # <<>>) => result = raised[1]

\* The structure errors.
StructErrs == {ErrElse, ErrEndif, ErrMissingEndif}

\* What a file's lines ask for, counting open scopes: the first structure error,
\* Ok, or "expression" where a malformed #if ends the call first.
RECURSIVE RefStructure(_, _, _)
RefStructure(lines, i, depth) ==
    IF i > Len(lines) THEN (IF depth > 0 THEN ErrMissingEndif ELSE Ok)
    ELSE LET kind == line_kind(lines[i])
         IN  CASE kind \in {"ifdef", "ifndef"} -> RefStructure(lines, i + 1, depth + 1)
               [] kind = "if" ->
                    IF eval_expr(trim(slice_from(directive_text(lines[i])[1], 2)), defs).ok
                      THEN RefStructure(lines, i + 1, depth + 1)
                      ELSE [ok |-> FALSE, msg |-> "expression", arg |-> <<>>]
               [] kind = "else" ->
                    IF depth = 0 THEN ErrElse ELSE RefStructure(lines, i + 1, depth)
               [] kind = "endif" ->
                    IF depth = 0 THEN ErrEndif ELSE RefStructure(lines, i + 1, depth - 1)
               [] OTHER -> RefStructure(lines, i + 1, depth)

\* C3: a process_file call on a readable file returns a structure error exactly
\* when its lines hold a stray #else, a stray #endif or leave a scope open at the
\* end, and then the error of the first such place.
C3_StructureErrors ==
    (last_ret.depth > 0 /\ last_ret.path \in DOMAIN files) =>
        LET ref == RefStructure(str_lines(files[last_ret.path]), 1, 0)
        IN  (last_ret.ret \in StructErrs \/ ref \in StructErrs) => last_ret.ret = ref

\* The root call has returned "missing #endif" after emitting something.
C3_Witness ==
    /\ pc = "done" /\ result = ErrMissingEndif
    /\ last_ret.path = RootPath /\ out # <<>>

\* C4: an #else line met with a frame open never ends the call; the first one in
\* a frame negates active, sets else_seen and recomputes the flag, and a later
\* one leaves the stack and the flag as they are.
C4_SecondElse ==
    [][(AtLine /\ line_kind(Line) = "else" /\ Top.stack # <<>>) =>
         LET n == Len(calls)
             top == LastOf(Top.stack)
         IN  /\ Len(calls') = n /\ raised' = raised /\ out' = out
             /\ calls'[n].idx = Top.idx + 1
             /\ IF top.else_seen
                  THEN /\ calls'[n].stack = Top.stack
                       /\ calls'[n].current_active = Top.current_active
                  ELSE /\ calls'[n].stack =
                            [Top.stack EXCEPT ![Len(Top.stack)] =
                                CondFrame(top.parent_active, ~top.active, TRUE)]
                       /\ calls'[n].current_active = (top.parent_active /\ ~top.active)]_vars

\* Two #else lines in a row have been processed inside an open frame.
C4_Witness ==
    /\ Running /\ Top.entered /\ Top.idx > 2
    /\ line_kind(Top.lines[Top.idx - 1]) = "else"
    /\ line_kind(Top.lines[Top.idx - 2]) = "else"
    /\ Top.stack # <<>> /\ LastOf(Top.stack).else_seen

----------------------------------------------------------------------------
\* Properties of the definition store.

Names == { <<"A">>, <<"B">>, <<"A","B">>, <<"C">> }

\* The arguments read so far that define name: -Dname or -Dname=...
Mentions(name) ==
    { i \in 1..(argi - 1) :
        argv[i] = DashD \o name \/ starts_with(argv[i], DashD \o name \o <<"=">>) }

\* What the last definition of name supplied: <<>> is nothing, <<v>> the value v.
Supplied(name) ==
    IF Mentions(name) = {} THEN <<>>
    ELSE LET a == argv[CHOOSE i \in Mentions(name) : \A j \in Mentions(name) : j <= i]
             v == SubSeq(a, Len(name) + 4, Len(a))
         IN  IF a = DashD \o name THEN <<TRUE_STR>>
             ELSE IF v = <<>> THEN <<>>
             ELSE <<v>>

\* C5: after any definitions applied in order, a name is defined iff its last
\* definition supplied a value, its value is then that value ("TRUE" for a bare
\* name) and the empty string otherwise; a name never mentioned is undefined.
C5_LastWriteWins ==
    \A name \in Names :
        /\ is_defined(defs, name) = (Supplied(name) # <<>>)
        /\ get_value(defs, name) =
             (IF Supplied(name) # <<>> THEN Supplied(name)[1] ELSE <<>>)

\* -DA, then -DA=, then -DA: A is defined again, with the value "TRUE".
C5_Witness ==
    /\ argv = << <<"-","D","A">>, <<"-","D","A","=">>, <<"-","D","A">> >>
    /\ argi = 4
    /\ get_value(defs, <<"A">>) = TRUE_STR

----------------------------------------------------------------------------
\* Properties of unreadable files.

\* The top call is at an #include line, in an emitting scope, of a file that
\* cannot be read.
AtMissingInclude ==
    /\ AtLine /\ line_kind(Line) = "include" /\ Top.current_active
    /\ parse_include_path(Trimmed, defs) # <<>>
    /\ path_join(path_parent(Top.path), parse_include_path(Trimmed, defs)[1])
         \notin DOMAIN files

\* C6: a process_file call on an unreadable path returns Ok and leaves the output
\* and every calling frame as they are; and an #include of such a path changes
\* nothing of the including call but the line it is at.
C6_UnreadableIsNoOp ==
    [][/\ (Running /\ ~Top.entered /\ Top.path \notin DOMAIN files) =>
            /\ last_ret' = [path |-> Top.path, depth |-> Len(calls), ret |-> Ok]
            /\ out' = out /\ raised' = raised
            /\ calls' = SubSeq(calls, 1, Len(calls) - 1)
            /\ Len(calls) = 1 => (result' = Ok /\ pc' = "done")
       /\ AtMissingInclude =>
            /\ out' = out
            /\ Len(calls') = Len(calls) + 1
            /\ calls'[Len(calls)] = [Top EXCEPT !.idx = @ + 1]
            /\ ~calls'[Len(calls) + 1].entered]_vars

\* An #include of the missing file "no", inside an open emitting scope and after
\* an emitted line, has returned.
C6_Witness ==
    /\ Running /\ Len(calls) = 1
    /\ last_ret = [path |-> <<"n","o">>, depth |-> 2, ret |-> Ok]
    /\ Top.stack # <<>> /\ Top.current_active /\ out # <<>>
    /\ line_kind(Top.lines[Top.idx - 1]) = "include"

----------------------------------------------------------------------------
\* Properties of substitution and of content lines.

\* Positions where c is doubled.
Doubled(s, c) == { i \in 1..(Len(s) - 1) : s[i] = c /\ s[i + 1] = c }

\* A c c ... c c span.
HasSpan(s, c) == \E i \in Doubled(s, c) : \E j \in Doubled(s, c) : j >= i + 2

\* Content-form substitution as described: the leftmost "$$" with a later "$$"
\* opens a span that its nearest later "$$" closes; the span becomes the value of
\* an identifier, or nothing; all other text stays.
RECURSIVE RefSubst(_, _)
RefSubst(s, d) ==
    LET opens == { i \in Doubled(s, "$") : \E j \in Doubled(s, "$") : j >= i + 2 }
    IN  IF opens = {} THEN s
        ELSE LET i == CHOOSE x \in opens : \A y \in opens : x <= y
                 closes == { j \in Doubled(s, "$") : j >= i + 2 }
                 j == CHOOSE x \in closes : \A y \in closes : x <= y
                 name == SubSeq(s, i + 2, j - 1)
             IN  SubSeq(s, 1, i - 1)
                   \o (IF is_ident(name) THEN get_value(d, name) ELSE <<>>)
                   \o RefSubst(SubSeq(s, j + 2, Len(s)), d)

\* C7: a readable root input with no "#" at the start of a line and no $$...$$
\* or ##...## span is processed without error and comes out unchanged.
C7_Idempotent ==
    (/\ pc = "done" /\ RootPath \in DOMAIN files
     /\ \A l \in Range(str_lines(files[RootPath])) : l = <<>> \/ l[1] # "#"
     /\ ~HasSpan(files[RootPath], "$") /\ ~HasSpan(files[RootPath], "#"))
        => (result = Ok /\ out = files[RootPath])

\* C9: for every line, replace_dollar_vars returns the line with each $$...$$
\* span, scanned left to right, replaced by get_value of the enclosed identifier
\* (deleted when the enclosed text is no identifier), and with a "$$" that has
\* no closing "$$" and all text outside the spans copied unchanged.
C9_SubstAsDescribed ==
    sample.done => sample.ret = RefSubst(sample.line, defs)

\* Leading whitespace skipped.
RECURSIVE RefSkipBlanks(_)
RefSkipBlanks(s) ==
    IF s # <<>> /\ is_whitespace(Head(s)) THEN RefSkipBlanks(Tail(s)) ELSE s

\* A directive line as described.
RefIsDirective(l) ==
    /\ l # <<>> /\ l[1] = "#"
    /\ \E kw \in {kw_include, kw_ifdef, kw_ifndef, kw_if, kw_else, kw_endif} :
           starts_with(RefSkipBlanks(Tail(l)), kw)

\* C10: a line that does not start with "#" followed, blanks skipped, by one of
\* the six keywords is a content line: it leaves the conditional stack and the
\* flag of its call as they are, ends no call, and, when the scope is emitting,
\* is appended to the output with its $$name$$ spans substituted, the rest of
\* its text intact, and a line terminator.
C10_ContentLines ==
    [][(AtLine /\ ~RefIsDirective(Line)) =>
         /\ Len(calls') = Len(calls)
         /\ calls'[Len(calls)] = [Top EXCEPT !.idx = @ + 1]
         /\ out' = IF Top.current_active
                     THEN out \o RefSubst(Line, defs) \o <<"\n">>
                     ELSE out]_vars

----------------------------------------------------------------------------
\* Properties of eval_expr.

\* s and w are the same word, letter case aside.
SameWord(s, w) ==
    /\ Len(s) = Len(w)
    /\ \A i \in DOMAIN s :
           s[i] = w[i] \/ \E k \in DOMAIN Lower : {s[i], w[i]} = {Lower[k], Upper[k]}

RefTruthy(s) ==
    /\ s # <<>>
    /\ \A w \in {<<"0">>, <<"F">>, <<"F","A","L","S","E">>, <<"N","O">>} : ~SameWord(s, w)

\* The string a value stands for.
RefValue(v, d) == IF v.a.t = "Ident" THEN get_value(d, v.a.s) ELSE v.a.s

\* The reference evaluation of an expression tree.
RECURSIVE RefEval(_, _)
RefEval(e, d) ==
    CASE e.k = "val" -> RefTruthy(RefValue(e, d))
      [] e.k = "eq" -> RefValue(e.a, d) = RefValue(e.b, d)
      [] e.k = "ne" -> RefValue(e.a, d) # RefValue(e.b, d)
      [] e.k = "not" -> ~RefEval(e.a, d)
      [] e.k = "and" -> RefEval(e.a, d) /\ RefEval(e.b, d)
      [] e.k = "or" -> RefEval(e.a, d) \/ RefEval(e.b, d)
      [] e.k = "paren" -> RefEval(e.a, d)

\* C8: eval_expr on the text of a well-formed expression returns Ok with the
\* value of the reference evaluation.
C8_EvalMatchesReference ==
    sample.done => sample.ret = [ok |-> TRUE, val |-> RefEval(sample.expr, defs)]

\* "!B||!A && A == 1" has been evaluated: the && binds tighter, and the value
\* is true.
C8_Witness ==
    /\ pc = "expr" /\ sample.done
    /\ sample.expr.k = "or"
    /\ sample.expr.a.k = "not" /\ sample.expr.b.k = "and"
    /\ sample.expr.b.a.k = "not" /\ sample.expr.b.b.k = "eq"
    /\ sample.ret = [ok |-> TRUE, val |-> TRUE]

----------------------------------------------------------------------------
\* process_file on inputs with malformed #if lines in every kind of scope.

\* The malformed #if lines, one or two of each kind, with the error of each:
\* a single '&', a character outside the token set, a missing ')', a missing
\* value (the line of the test invalid_expression_fails), an end of input where
\* a value is due, and a token left over after a full parse.
MalformedIfs ==
    { [line |-> <<"#","i","f"," ","A"," ","&">>,
       err |-> Err("invalid expression: single '&'", <<>>)],
      [line |-> <<"#","i","f"," ","$","A">>,
       err |-> Err("invalid expression: unexpected char", "$")],
      [line |-> <<"#","i","f"," ","(","A">>,
       err |-> Err("invalid expression: missing ')'", <<>>)],
      [line |-> <<"#","i","f"," ","(","A"," ","&","&",")">>,
       err |-> Err("invalid expression: expected value", <<>>)],
      [line |-> <<"#","i","f">>,
       err |-> Err("invalid expression: unexpected end", <<>>)],
      [line |-> <<"#","i","f"," ","A"," ","|","|">>,
       err |-> Err("invalid expression: unexpected end", <<>>)],
      [line |-> <<"#","i","f"," ","A"," ","B">>,
       err |-> Err("invalid expression: unexpected token at position", 1)] }

\* The file sub fails on a malformed #if inside a scope that #ifdef Z closed.
IfFiles ==
    IncFiles @@
    ( <<"s","u","b">> :>
        <<"#","i","f","d","e","f"," ","Z","\n","#","i","f"," ","(","A","\n","#","e","n","d","i","f","\n","t","\n">> )

\* The lines a root input is made of: the malformed #if lines, a well-formed
\* one, the two openers of a non-emitting scope, #else, #endif, content and an
\* #include of sub.
IfCatalog ==
    { m.line : m \in MalformedIfs } \cup
    { <<"#","i","f"," ","A"," ","=","="," ","1">>,
      <<"#","i","f","d","e","f"," ","Z">>,
      <<"#","i","f","n","d","e","f"," ","A">>,
      <<"#","e","l","s","e">>,
      <<"#","e","n","d","i","f">>,
      <<"x">>,
      <<"#","i","n","c","l","u","d","e"," ","s","u","b">> }

IfTexts == { text_of(ls) : ls \in UNION { [1..n -> IfCatalog] : n \in 0..MaxIfLines } }

InitIf ==
    /\ argv = DefaultArgs
    /\ argi = Len(argv) + 1
    /\ defs = main_args(Defs_new, <<>>, argv).defs
    /\ input = main_args(Defs_new, <<>>, argv).input
    /\ \E text \in IfTexts : files = (RootPath :> text) @@ IfFiles
    /\ calls = <<>>
    /\ out = <<>>
    /\ last_ret = NoRet
    /\ raised = <<>>
    /\ result = Ok
    /\ pc = "args"
    /\ sample = <<>>

SpecIf == InitIf /\ [][Next]_vars

\* C11: an #if line with a malformed expression ends the process_file call it
\* is met in with the "invalid expression" error of its kind, whether the scope
\* is emitting or not: the call returns that error at once, so no frame is
\* pushed and no later line of the file is processed, and nothing is emitted;
\* an #include line in a non-emitting scope, by contrast, is only stepped over.
C11_MalformedIf ==
    /\ [][\A m \in MalformedIfs :
             (AtLine /\ Line = m.line) =>
               /\ calls' = SubSeq(calls, 1, Len(calls) - 1)
               /\ last_ret' = [path |-> Top.path, depth |-> Len(calls), ret |-> m.err]
               /\ raised' = Append(raised, m.err)
               /\ out' = out]_vars
    /\ [][(AtLine /\ ~Top.current_active /\ starts_with(Line, <<"#","i","n","c","l","u","d","e">>)) =>
             /\ calls' = [calls EXCEPT ![Len(calls)].idx = @ + 1]
             /\ UNCHANGED <<out, raised, last_ret>>]_vars

\* The root input "#ifdef Z / #if (A / x" has been processed: Z is not defined,
\* so the #if line lay in a non-emitting scope, and the run failed on it.
C11_Witness ==
    /\ pc = "done"
    /\ RootPath \in DOMAIN files
    /\ files[RootPath] = text_of(<< <<"#","i","f","d","e","f"," ","Z">>, <<"#","i","f"," ","(","A">>, <<"x">> >>)
    /\ result = Err("invalid expression: missing ')'", <<>>)
    /\ out = <<>>

----------------------------------------------------------------------------
\* process_file on inputs whose #include lines lead back to an open file.

\* The file mid includes the root input; the file d/m emits a line and includes
\* m, which its own directory d resolves to d/m.
CycleFiles ==
    IncFiles @@
    ( <<"m","i","d">> :>
        <<"#","i","n","c","l","u","d","e"," ","i","n","\n">> ) @@
    ( <<"d","/","m">> :>
        <<"m","$","$","A","$","$","\n","#","i","f","n","d","e","f"," ","Z","\n","#","i","n","c","l","u","d","e"," ","m","\n","#","e","n","d","i","f","\n">> )

\* The lines a root input is made of: #include of itself, of mid and of d/m,
\* the opener of a non-emitting scope, a malformed #if, #else, #endif, content.
CycleCatalog ==
    { <<"#","i","n","c","l","u","d","e"," ","i","n">>,
      <<"#","i","n","c","l","u","d","e"," ","m","i","d">>,
      <<"#","i","n","c","l","u","d","e"," ","d","/","m">>,
      <<"#","i","f","d","e","f"," ","Z">>,
      <<"#","i","f"," ","(">>,
      <<"#","e","l","s","e">>,
      <<"#","e","n","d","i","f">>,
      <<"x">> }

CycleTexts ==
    { text_of(ls) : ls \in UNION { [1..n -> CycleCatalog] : n \in 0..MaxCycleLines } }

InitCycle ==
    /\ argv = DefaultArgs
    /\ argi = Len(argv) + 1
    /\ defs = main_args(Defs_new, <<>>, argv).defs
    /\ input = main_args(Defs_new, <<>>, argv).input
    /\ \E text \in CycleTexts : files = (RootPath :> text) @@ CycleFiles
    /\ calls = <<>>
    /\ out = <<>>
    /\ last_ret = NoRet
    /\ raised = <<>>
    /\ result = Ok
    /\ pc = "args"
    /\ sample = <<>>

\* Whether Next can take a step: main is about to call process_file, or a call is
\* running and is not held at an #include that would exceed MaxDepth.
CanStep ==
    \/ pc = "args" /\ argi > Len(argv) /\ input # <<>>
    \/ /\ Running
       /\ ~ /\ AtLine /\ line_kind(Line) = "include"
             /\ Top.current_active
             /\ parse_include_path(Trimmed, defs) # <<>>
             /\ descends(calls, path_join(path_parent(Top.path),
                                          parse_include_path(Trimmed, defs)[1]))
             /\ Len(calls) >= MaxDepth

\* The program is sequential and never waits: a step that can be taken is
\* taken. This is WF_vars(Next) with the enabling condition of Next written out.
Progress == []<>(~CanStep) \/ []<><<Next>>_vars

SpecCycle == InitCycle /\ [][Next]_vars /\ Progress

\* The path an #include line of the running call resolves to.
Target == path_join(path_parent(Top.path), parse_include_path(Trimmed, defs)[1])

\* The running call, in an emitting scope, is at an #include line whose path
\* resolves to a file that an open call has read and is still processing.
AtCycleInclude ==
    /\ AtLine /\ Top.current_active
    /\ starts_with(Line, <<"#","i","n","c","l","u","d","e">>)
    /\ parse_include_path(Trimmed, defs) # <<>>
    /\ \E i \in DOMAIN calls : calls[i].entered /\ calls[i].path = Target

\* A call of process_file on a file that a call below it has read and is still
\* processing.
Reopened(j) ==
    \E i \in 1..(j - 1) : calls[i].entered /\ calls[i].path = calls[j].path

\* C12: when a call of process_file reaches, in an emitting scope, an #include
\* line whose path resolves to a file that is open on the chain of calls (the
\* file itself, or one that led to it through includes), processing never
\* completes: the line starts a deeper call of process_file on that file, a
\* call on a file that is open below it never returns, so neither do the calls
\* below it and the root call returns neither success nor an error, and the
\* depth goes on to reach MaxDepth, the most the model holds, where the run
\* stays.
C12_IncludeCycle ==
    /\ [][(AtCycleInclude /\ Len(calls) < MaxDepth) =>
             calls' = Append([calls EXCEPT ![Len(calls)].idx = @ + 1], Call(Target))]_vars
    /\ [][\A j \in DOMAIN calls :
             Reopened(j) => (pc' = "run" /\ Len(calls') >= j)]_vars
    /\ [][~(AtCycleInclude /\ Len(calls) = MaxDepth)]_vars
    /\ (AtCycleInclude ~> (Len(calls) = MaxDepth))

\* The root input "x / #include in" is open MaxDepth times, each call having
\* emitted its x and reached the #include of the same file.
C12_Witness ==
    /\ AtCycleInclude
    /\ Len(calls) = MaxDepth
    /\ \A i \in DOMAIN calls : calls[i].path = RootPath
    /\ files[RootPath] = text_of(<< <<"x">>, <<"#","i","n","c","l","u","d","e"," ","i","n">> >>)
    /\ Len(out) = 2 * MaxDepth

====
